---- MODULE Spec2Model ----
(***************************************************************************)
(* A model of the analysis pipeline of src/edtech/analysis.py:             *)
(* run_openai_analysis (batch loop, retried extraction call, raw dump,     *)
(* aggregation by dedupe_key, aggregated CSV, summary, per-post tables).   *)
(*                                                                         *)
(* Texts the code processes character by character (dedupe_key, title,     *)
(* subreddit, the model name) are sequences of one-character strings;      *)
(* labels the code only stores and compares (stakeholders, links, tags,    *)
(* audiences, column names) are TLA+ strings.  A result is a function      *)
(* whose DOMAIN is the set of keys the dict holds, so r.get(k, d) is Get.  *)
(***************************************************************************)
EXTENDS Integers, Sequences, FiniteSets, TLC

\* ------------------------------------------------------------------ bounds
MaxPosts == 3
MaxBatch == 3
MaxResults == 3
MaxSameKey == 6
MaxText == 5
MaxArgs == 2

\* ------------------------------------------------------- program constants
stop_after_attempt == 6
ExamplesCap == 5
DefaultSeverity == 3
TruncLen == 300

\* ---------------------------------------------------------------- values
\* Python's None, as a value no text equals (a text holds single characters).
None == <<"None">>

Whitespace == {" ", "\n"}

\* str.lower() on the model's alphabet.
LowerChar(c) == CASE c = "A" -> "a" [] c = "B" -> "b" [] OTHER -> c

Lower(s) == [j \in 1..Len(s) |-> LowerChar(s[j])]

RECURSIVE LStrip(_)
LStrip(s) == IF s # <<>> /\ Head(s) \in Whitespace THEN LStrip(Tail(s)) ELSE s

RECURSIVE RStrip(_)
RStrip(s) ==
    IF s # <<>> /\ s[Len(s)] \in Whitespace THEN RStrip(SubSeq(s, 1, Len(s) - 1)) ELSE s

\* str.strip()
Strip(s) == RStrip(LStrip(s))

\* str.replace("\n", " ")
ReplaceNL(s) == [j \in 1..Len(s) |-> IF s[j] = "\n" THEN " " ELSE s[j]]

\* dict.get(k, d)
Get(r, k, d) == IF k \in DOMAIN r THEN r[k] ELSE d

\* x or d, for a text x
OrElse(x, d) == IF x = None \/ x = <<>> THEN d ELSE x

\* the members of a sequence of sequences, one after the other
RECURSIVE Concat(_)
Concat(ss) == IF ss = <<>> THEN <<>> ELSE Head(ss) \o Concat(Tail(ss))

Min(a, b) == IF a < b THEN a ELSE b
Max(a, b) == IF a < b THEN b ELSE a

\* Names bound at module level in analysis.py: its two import lines and its
\* own definitions.  Neither os nor sys is among them.
ModuleGlobals ==
    {"json", "retry", "wait_exponential", "stop_after_attempt",
     "_oai_client", "_model_name", "ANALYSIS_SCHEMA", "SYSTEM_PROMPT",
     "_to_prompt_items", "analyze_batch_with_openai", "_flatten_for_row",
     "_write_per_post_csv", "_write_per_post_md", "run_openai_analysis"}

VARIABLES
    all_rows,    \* the posts handed to run_openai_analysis
    args,        \* batch_size, model, table, md_top
    pc,          \* position in run_openai_analysis
    i,           \* the batch loop's index
    batch,       \* the current slice
    calls,       \* outcomes of the attempts made for the current batch
    analyses,    \* the results collection
    slices,      \* history: the slices the loop has made
    exhausted,   \* history: loop indices whose batch failed on every attempt
    stderr,      \* what was printed to sys.stderr
    ri,          \* aggregation loop: results consumed so far
    buckets,     \* dict key -> bucket, in insertion order
    files,       \* files written: name -> content
    exc,         \* the exception that left run_openai_analysis, or NoExc
    sub_pc,      \* position in main's resolution of the subreddit names
    sub_args,    \* args.subreddits (empty when --subreddits-file is used)
    sub_file,    \* the text of the subreddits file
    sub_raw,     \* history: the tokens read_subreddits_from_file found
    subreddits,  \* main's list of names
    names        \* the name main scrapes for each entry of subreddits

subVars == <<sub_pc, sub_args, sub_file, sub_raw, subreddits, names>>

vars == <<all_rows, args, pc, i, batch, calls, analyses, slices, exhausted,
          stderr, ri, buckets, files, exc, subVars>>

NoExc == [type |-> "none", at |-> "none"]


\* ------------------------------------------------------------ the inputs
Post(n) == [id |-> n]

\* all_rows: posts 1..n
Rows(n) == [j \in 1..n |-> Post(j)]

\* What the extraction service may answer for one post: a full result, one
\* whose dedupe_key is blank, one with no title.
ServiceResults(p) ==
    { [post_id |-> p.id, subreddit |-> <<"s">>, title |-> <<"t">>,
       severity_1to5 |-> 4, dedupe_key |-> <<"A">>,
       stakeholders |-> <<"Students">>],
      [post_id |-> p.id, subreddit |-> <<"s">>, title |-> <<"u">>,
       dedupe_key |-> <<" ">>],
      [post_id |-> p.id, subreddit |-> <<"s">>, dedupe_key |-> <<"b">>] }

\* data["results"] for a batch: per post, in order, one result or none.
RECURSIVE Responses(_)
Responses(b) ==
    IF b = <<>> THEN {<<>>}
    ELSE LET rest == Responses(Tail(b))
         IN  rest \cup {<<r>> \o t : r \in ServiceResults(Head(b)), t \in rest}

\* --------------------------------------------------------- the batch loop
\* bs = max(1, int(args.batch_size))
BatchSize(a) == Max(1, a.batch_size)

\* Slice with the upper index taken inclusively.
SliceInclusive(s, lo, hi) == SubSeq(s, lo + 1, Min(hi + 1, Len(s)))

\* all_rows[lo:hi]
Slice(s, lo, hi) == SubSeq(s, lo + 1, Min(hi, Len(s)))

\* _model_name(args) raises NameError when args.model is falsy: os is unbound.
ModelNameRaises(a) == (a.model = None \/ a.model = <<>>) /\ "os" \notin ModuleGlobals

\* RetryAgain stopping one attempt late.
RetryAgainOnceMore(made) == made <= stop_after_attempt

\* tenacity: call again after an exception until stop_after_attempt calls were made.
RetryAgain(made) == made < stop_after_attempt

\* Extend putting the new results in front.
ExtendInFront(as, res) == res \o as

\* analyses.extend(results)
Extend(as, res) == as \o res

\* for i in range(0, len(all_rows), bs): batch = all_rows[i:i+bs]
ForBatch ==
    /\ pc = "for"
    /\ IF i < Len(all_rows)
       THEN /\ batch' = Slice(all_rows, i, i + BatchSize(args))
            /\ slices' = Append(slices, batch')
            /\ calls' = <<>>
            /\ pc' = "call"
       ELSE /\ pc' = "write_raw"
            /\ UNCHANGED <<batch, slices, calls>>
    /\ UNCHANGED <<all_rows, args, i, analyses, exhausted, stderr, ri, buckets, files, exc>>
    /\ UNCHANGED subVars

\* One attempt of analyze_batch_with_openai under @retry; on return,
\* analyses.extend(results) and the loop moves on.
Attempt ==
    /\ pc = "call"
    /\ \/ /\ calls' = Append(calls, "raise")
          /\ IF RetryAgain(Len(calls'))
             THEN pc' = "call" /\ UNCHANGED exhausted
             ELSE pc' = "except" /\ exhausted' = exhausted \cup {i}
          /\ UNCHANGED <<analyses, i>>
       \/ /\ ~ModelNameRaises(args)
          /\ \E res \in Responses(batch) :
                analyses' = Extend(analyses, res)
          /\ calls' = Append(calls, "ok")
          /\ i' = i + BatchSize(args)
          /\ pc' = "for"
          /\ UNCHANGED exhausted
    /\ UNCHANGED <<all_rows, args, batch, slices, stderr, ri, buckets, files, exc>>
    /\ UNCHANGED subVars

\* except Exception as e: print(f"[error] ... batch {i}-{i+bs}: {e}", file=sys.stderr)
BatchExcept ==
    /\ pc = "except"
    /\ IF "sys" \in ModuleGlobals
       THEN /\ stderr' = Append(stderr, [what |-> "error", lo |-> i, hi |-> i + BatchSize(args)])
            /\ i' = i + BatchSize(args)
            /\ pc' = "for"
            /\ UNCHANGED exc
       ELSE /\ exc' = [type |-> "NameError", at |-> "batch_except"]
            /\ pc' = "aborted"
            /\ UNCHANGED <<stderr, i>>
    /\ UNCHANGED <<all_rows, args, batch, calls, analyses, slices, exhausted, ri, buckets, files>>
    /\ UNCHANGED subVars

\* with open(raw_path, "w"): one line per result
WriteRaw ==
    /\ pc = "write_raw"
    /\ files' = ("raw" :> analyses) @@ files
    /\ ri' = 0
    /\ buckets' = <<>>
    /\ pc' = "aggregate"
    /\ UNCHANGED <<all_rows, args, i, batch, calls, analyses, slices, exhausted, stderr, exc>>
    /\ UNCHANGED subVars

\* ------------------------------------------------------------ aggregation
\* KeyOf without the strip().
KeyOfNoStrip(r) == Lower(OrElse(Get(r, "dedupe_key", None), <<>>))

\* key = (r.get("dedupe_key") or "").lower().strip()
KeyOf(r) == Strip(Lower(OrElse(Get(r, "dedupe_key", None), <<>>)))

\* int(r.get("severity_1to5", 3))
SeverityOf(r) == Get(r, "severity_1to5", DefaultSeverity)

SeqToSet(s) == {s[j] : j \in 1..Len(s)}

NewBucket(k) ==
    [key |-> k, count |-> 0, examples |-> <<>>, severity_sum |-> 0,
     audiences |-> {}, links |-> {}, tags |-> {}]

\* AddExample without the length test.
AddExampleNoCap(ex, r) ==
    Append(ex, [subreddit |-> Get(r, "subreddit", None), title |-> Get(r, "title", None)])

\* if len(b["examples"]) < 5: b["examples"].append({...})
AddExample(ex, r) ==
    IF Len(ex) < ExamplesCap
    THEN Append(ex, [subreddit |-> Get(r, "subreddit", None), title |-> Get(r, "title", None)])
    ELSE ex

\* b["audiences"].add(r.get("target_audience", ""))
AudienceOf(r) == {Get(r, "target_audience", "")}

\* lines 202-209 on bucket b
Accumulate(b, r) ==
    [b EXCEPT !.count = @ + 1,
              !.severity_sum = @ + SeverityOf(r),
              !.audiences = @ \cup AudienceOf(r),
              !.tags = @ \cup SeqToSet(Get(r, "primary_topic_tags", <<>>)),
              !.links = @ \cup SeqToSet(Get(r, "useful_links", <<>>)),
              !.examples = AddExample(@, r)]

HasKey(bks, k) == \E j \in 1..Len(bks) : bks[j].key = k

\* buckets.setdefault(key, {...}): a new key goes last
SetDefault(bks, k) == IF HasKey(bks, k) THEN bks ELSE Append(bks, NewBucket(k))

\* the body of "for r in analyses" (lines 196-209)
AddResult(bks, r) ==
    LET k == KeyOf(r) IN
    IF k = <<>> THEN bks
    ELSE LET d == SetDefault(bks, k)
         IN  [j \in 1..Len(d) |-> IF d[j].key = k THEN Accumulate(d[j], r) ELSE d[j]]

Aggregate ==
    /\ pc = "aggregate"
    /\ IF ri < Len(analyses)
       THEN /\ buckets' = AddResult(buckets, analyses[ri + 1])
            /\ ri' = ri + 1
            /\ pc' = "aggregate"
       ELSE /\ pc' = "write_agg"
            /\ UNCHANGED <<buckets, ri>>
    /\ UNCHANGED <<all_rows, args, i, batch, calls, analyses, slices, exhausted, stderr, files, exc>>
    /\ UNCHANGED subVars

\* ------------------------------------------------------ aggregated CSV
\* InsertByCount putting a bucket before those of equal count.
InsertBeforeEqual(sorted, b) ==
    LET before == {j \in 1..Len(sorted) : sorted[j].count > b.count}
        n == Cardinality(before)
    IN  SubSeq(sorted, 1, n) \o <<b>> \o SubSeq(sorted, n + 1, Len(sorted))

\* sorted(buckets.items(), key=count, reverse=True): stable, so buckets of
\* equal count keep their insertion order.
InsertByCount(sorted, b) ==
    LET before == {j \in 1..Len(sorted) : sorted[j].count >= b.count}
        n == Cardinality(before)
    IN  SubSeq(sorted, 1, n) \o <<b>> \o SubSeq(sorted, n + 1, Len(sorted))

RECURSIVE SortedByCount(_)
SortedByCount(bks) ==
    IF bks = <<>> THEN <<>>
    ELSE InsertByCount(SortedByCount(SubSeq(bks, 1, Len(bks) - 1)), bks[Len(bks)])

\* Round2 cutting the digits after the second instead of rounding.
Round2Floor(sum, count) == (100 * sum) \div count

\* round(severity_sum / count, 2), in hundredths.  A tie (which needs a count
\* divisible by 8) is an exact binary fraction and goes to the even hundredth.
Round2(sum, count) ==
    LET q == (100 * sum) \div count
        rem == (100 * sum) % count
    IN  IF 2 * rem > count THEN q + 1
        ELSE IF 2 * rem = count THEN q + (q % 2)
        ELSE q

\* sep.join(texts)
RECURSIVE JoinTexts(_, _)
JoinTexts(ts, sep) ==
    IF ts = <<>> THEN <<>>
    ELSE IF Len(ts) = 1 THEN ts[1]
    ELSE ts[1] \o sep \o JoinTexts(Tail(ts), sep)

\* s[:n]
Take(s, n) == SubSeq(s, 1, Min(n, Len(s)))

\* "; ".join(e["title"] for e in b["examples"]) raises TypeError on a None title.
RowRaises(b) == \E j \in 1..Len(b.examples) : b.examples[j].title = None

\* One row of the aggregated CSV.  The audiences and tags cells are the sorted
\* join of a set of labels, kept here as the set.
AggRow(b) ==
    [issue_key |-> b.key,
     posts |-> b.count,
     avg_severity |-> Round2(b.severity_sum, b.count),
     audiences |-> {a \in b.audiences : a # ""},
     top_tags |-> b.tags,
     example_titles |->
        Take(JoinTexts([j \in 1..Len(b.examples) |-> b.examples[j].title], <<";", " ">>), TruncLen),
     links_count |-> Cardinality(b.links)]

AggHeader ==
    <<"issue_key", "posts", "avg_severity", "audiences", "top_tags", "example_titles", "links_count">>

\* lines 213-226: the header, then one row per bucket; a row that raises leaves
\* the rows before it in the file.
WriteAgg ==
    /\ pc = "write_agg"
    /\ LET s == SortedByCount(buckets)
           bad == {j \in 1..Len(s) : RowRaises(s[j])}
           n == IF bad = {} THEN Len(s) ELSE (CHOOSE j \in bad : \A k \in bad : j <= k) - 1
       IN  /\ files' = ("agg" :> [header |-> AggHeader, rows |-> [j \in 1..n |-> AggRow(s[j])]]) @@ files
           /\ IF bad = {}
              THEN pc' = "summary" /\ UNCHANGED exc
              ELSE pc' = "aborted" /\ exc' = [type |-> "TypeError", at |-> "write_agg"]
    /\ UNCHANGED <<all_rows, args, i, batch, calls, analyses, slices, exhausted, stderr, ri, buckets>>
    /\ UNCHANGED subVars

\* ---------------------------------------------------------------- summary
\* json.dumps(buckets): every bucket holds sets, which json cannot serialise.
DumpsRaises(bks) == bks # <<>>

\* lines 229-239: any exception in the try block goes to the handler.
Summary ==
    /\ pc = "summary"
    /\ \/ /\ pc' = "summary_except"
          /\ UNCHANGED files
       \/ /\ ~ModelNameRaises(args)
          /\ ~DumpsRaises(buckets)
          /\ \E bullet \in {None, <<"x">>} :
                files' = ("summary" :> OrElse(bullet, <<>>)) @@ files
          /\ pc' = "per_post_csv"
    /\ UNCHANGED <<all_rows, args, i, batch, calls, analyses, slices, exhausted, stderr, ri, buckets, exc>>
    /\ UNCHANGED subVars

\* except Exception as e: print(f"[warn] summary generation failed: {e}", file=sys.stderr)
SummaryExcept ==
    /\ pc = "summary_except"
    /\ IF "sys" \in ModuleGlobals
       THEN /\ stderr' = Append(stderr, [what |-> "warn", lo |-> 0, hi |-> 0])
            /\ pc' = "per_post_csv"
            /\ UNCHANGED exc
       ELSE /\ exc' = [type |-> "NameError", at |-> "summary_except"]
            /\ pc' = "aborted"
            /\ UNCHANGED stderr
    /\ UNCHANGED <<all_rows, args, i, batch, calls, analyses, slices, exhausted, ri, buckets, files>>
    /\ UNCHANGED subVars

\* --------------------------------------------------------- per-post tables
\* join(arr, sep): "" for an empty list, else the non-blank items joined; the
\* cell is kept as the sequence of the items joined.
JoinCell(arr) == IF arr = <<>> THEN <<>> ELSE SelectSeq(arr, LAMBDA x : x # "")

FlattenColumns ==
    <<"post_id", "subreddit", "title", "theme", "sub_theme", "stakeholders",
      "problem_statements", "questions_users_ask", "proposed_solutions",
      "useful_links", "sentiment", "severity_1to5", "dedupe_key">>

\* _flatten_for_row
FlattenRow(a) ==
    [post_id |-> Get(a, "post_id", ""),
     subreddit |-> Get(a, "subreddit", <<>>),
     title |-> Strip(ReplaceNL(OrElse(Get(a, "title", <<>>), <<>>))),
     theme |-> Get(a, "theme", ""),
     sub_theme |-> Get(a, "sub_theme", ""),
     stakeholders |-> JoinCell(Get(a, "stakeholders", <<>>)),
     problem_statements |-> JoinCell(Get(a, "problem_statements", <<>>)),
     questions_users_ask |-> JoinCell(Get(a, "questions_users_ask", <<>>)),
     proposed_solutions |-> JoinCell(Get(a, "proposed_solutions", <<>>)),
     useful_links |-> JoinCell(Get(a, "useful_links", <<>>)),
     sentiment |-> Get(a, "sentiment", ""),
     severity_1to5 |-> Get(a, "severity_1to5", ""),
     dedupe_key |-> Get(a, "dedupe_key", <<>>)]

\* The columns of the header-only fallback and of the Markdown table.
FallbackColumns ==
    <<"post_id", "subreddit", "title", "sentiment", "severity_1to5", "target_audience",
      "primary_topic_tags", "problem_statements", "questions_users_ask",
      "proposed_solutions", "useful_links", "dedupe_key">>

\* {k: "" for k in [...]}
FallbackRow == [k \in SeqToSet(FallbackColumns) |-> ""]

\* _write_per_post_csv: the header, then every row of rows
PerPostCsvFile(as) ==
    LET flat == [j \in 1..Len(as) |-> FlattenRow(as[j])]
    IN  IF flat = <<>>
        THEN [fieldnames |-> FallbackColumns, rows |-> <<FallbackRow>>]
        ELSE [fieldnames |-> FlattenColumns, rows |-> flat]

PerPostCsv ==
    /\ pc = "per_post_csv"
    /\ files' = ("per_post_csv" :> PerPostCsvFile(analyses)) @@ files
    /\ pc' = IF args.table \in {"md", "both"} THEN "per_post_md" ELSE "print"
    /\ UNCHANGED <<all_rows, args, i, batch, calls, analyses, slices, exhausted, stderr, ri, buckets, exc>>
    /\ UNCHANGED subVars

TextColumns == {"subreddit", "title", "dedupe_key"}

\* esc: str(x).replace("|", "\\|")
RECURSIVE Esc(_)
Esc(s) ==
    IF s = <<>> THEN <<>>
    ELSE (IF Head(s) = "|" THEN <<"\\", "|">> ELSE <<Head(s)>>) \o Esc(Tail(s))

\* esc(r.get(h, ""))
MdCell(r, h) ==
    IF h \notin DOMAIN r THEN ""
    ELSE IF h \in TextColumns THEN Esc(r[h])
    ELSE r[h]

\* _write_per_post_md: header row, separator row, the first max(1, top_n) rows
PerPostMdFile(as, top_n) ==
    LET flat == Take([j \in 1..Len(as) |-> FlattenRow(as[j])], Max(1, top_n))
    IN  [header |-> FallbackColumns,
         separator |-> [j \in 1..Len(FallbackColumns) |-> "---"],
         rows |-> [j \in 1..Len(flat) |->
                     [c \in 1..Len(FallbackColumns) |-> MdCell(flat[j], FallbackColumns[c])]]]

PerPostMd ==
    /\ pc = "per_post_md"
    /\ files' = ("per_post_md" :> PerPostMdFile(analyses, args.md_top)) @@ files
    /\ pc' = "print"
    /\ UNCHANGED <<all_rows, args, i, batch, calls, analyses, slices, exhausted, stderr, ri, buckets, exc>>
    /\ UNCHANGED subVars

\* the closing prints; run_openai_analysis returns
Finish ==
    /\ pc = "print"
    /\ pc' = "done"
    /\ UNCHANGED <<all_rows, args, i, batch, calls, analyses, slices, exhausted, stderr, ri, buckets, files, exc>>
    /\ UNCHANGED subVars

\* ------------------------------------------------- the subreddit names
\* str.lstrip(cs): drops every leading character that is in cs.
RECURSIVE LStripChars(_, _)
LStripChars(s, cs) == IF s # <<>> /\ Head(s) \in cs THEN LStripChars(Tail(s), cs) ELSE s

\* The pieces of s between the characters of seps (empty pieces included).
RECURSIVE Pieces(_, _)
Pieces(s, seps) ==
    LET at == {k \in 1..Len(s) : s[k] \in seps} IN
    IF at = {} THEN <<s>>
    ELSE LET k == CHOOSE x \in at : \A y \in at : x <= y
         IN  <<SubSeq(s, 1, k - 1)>> \o Pieces(SubSeq(s, k + 1, Len(s)), seps)

\* text.splitlines()
SplitLines(text) == Pieces(text, {"\n"})

\* line.replace(",", " ")
ReplaceComma(s) == [j \in 1..Len(s) |-> IF s[j] = "," THEN " " ELSE s[j]]

\* line.split(): the non-empty pieces between blanks
SplitBlank(s) == SelectSeq(Pieces(s, Whitespace), LAMBDA p : p # <<>>)

\* lines 69-72 for one line
LineTokens(line0) ==
    LET line == Strip(Pieces(line0, {"#"})[1])
    IN  IF line = <<>> THEN <<>>
        ELSE SelectSeq([j \in 1..Len(SplitBlank(ReplaceComma(line))) |->
                           Strip(SplitBlank(ReplaceComma(line))[j])],
                       LAMBDA p : p # <<>>)

\* lines 67-72: raw
RawNames(text) == Concat([j \in 1..Len(SplitLines(text)) |-> LineTokens(SplitLines(text)[j])])

\* name.lstrip("r/").strip()
CleanName(name) == Strip(LStripChars(name, {"r", "/"}))

\* lines 74-81: cleaned, de-duplicated on the lowercased name
RECURSIVE Cleaned(_, _, _)
Cleaned(raw, seen, acc) ==
    IF raw = <<>> THEN acc
    ELSE LET name == CleanName(Head(raw))
             key == Lower(name)
         IN  IF key \in seen THEN Cleaned(Tail(raw), seen, acc)
             ELSE Cleaned(Tail(raw), seen \cup {key}, Append(acc, name))

\* read_subreddits_from_file; an empty list stands for the ValueError
ReadSubredditsFromFile(text) == Cleaned(RawNames(text), {}, <<>>)

\* main: name = raw_name.strip().lstrip("r/")
MainName(raw_name) == LStripChars(Strip(raw_name), {"r", "/"})

\* main, lines 232-235
Resolve ==
    /\ sub_pc = "resolve"
    /\ IF sub_args # <<>>
       THEN /\ subreddits' = sub_args
            /\ sub_pc' = "names"
            /\ UNCHANGED sub_raw
       ELSE /\ sub_raw' = RawNames(sub_file)
            /\ subreddits' = ReadSubredditsFromFile(sub_file)
            /\ sub_pc' = IF subreddits' = <<>> THEN "ValueError" ELSE "names"
    /\ UNCHANGED <<sub_args, sub_file, names>>
    /\ UNCHANGED <<all_rows, args, pc, i, batch, calls, analyses, slices, exhausted,
                   stderr, ri, buckets, files, exc>>

\* main, lines 245-246: the next entry of subreddits
NextName ==
    /\ sub_pc = "names"
    /\ IF Len(names) < Len(subreddits)
       THEN names' = Append(names, MainName(subreddits[Len(names) + 1])) /\ UNCHANGED sub_pc
       ELSE sub_pc' = "done" /\ UNCHANGED names
    /\ UNCHANGED <<sub_args, sub_file, sub_raw, subreddits>>
    /\ UNCHANGED <<all_rows, args, pc, i, batch, calls, analyses, slices, exhausted,
                   stderr, ri, buckets, files, exc>>

\* The names were resolved before the analysis is entered.
NamesResolved ==
    /\ sub_pc = "done"
    /\ sub_args = << <<"a">> >>
    /\ sub_file = <<>>
    /\ sub_raw = <<>>
    /\ subreddits = << <<"a">> >>
    /\ names = << <<"a">> >>

\* ------------------------------------------------------- specifications
NoFiles == [n \in {} |-> n]

ArgsSet ==
    [batch_size : 0..MaxBatch, model : {None, <<"m">>},
     table : {"csv", "md", "both"}, md_top : {0, 50}]

\* run_openai_analysis is entered
Init ==
    /\ all_rows \in {Rows(n) : n \in 0..MaxPosts}
    /\ args \in ArgsSet
    /\ pc = "for"
    /\ i = 0
    /\ batch = <<>>
    /\ calls = <<>>
    /\ analyses = <<>>
    /\ slices = <<>>
    /\ exhausted = {}
    /\ stderr = <<>>
    /\ ri = 0
    /\ buckets = <<>>
    /\ files = NoFiles
    /\ exc = NoExc
    /\ NamesResolved

AfterExtraction ==
    \/ WriteRaw
    \/ Aggregate
    \/ WriteAgg
    \/ Summary
    \/ SummaryExcept
    \/ PerPostCsv
    \/ PerPostMd
    \/ Finish

Next ==
    \/ ForBatch
    \/ Attempt
    \/ BatchExcept
    \/ AfterExtraction

Spec == Init /\ [][Next]_vars

\* Results the aggregation is run on: every field present or absent somewhere,
\* keys that differ only in case and surrounding blanks, blank and missing keys.
P1 ==
    [post_id |-> 1, subreddit |-> <<"s">>, title |-> <<"t">>, severity_1to5 |-> 1,
     dedupe_key |-> <<"A", " ">>, stakeholders |-> <<"Students">>, useful_links |-> <<"u1">>]
P2 ==
    [subreddit |-> <<"s">>, title |-> <<"t">>, dedupe_key |-> <<"a">>,
     stakeholders |-> <<"Teachers">>, useful_links |-> <<"u1", "u2">>,
     target_audience |-> "Parents", primary_topic_tags |-> <<"x">>]
P3 == [subreddit |-> <<"s">>, title |-> <<"u">>, severity_1to5 |-> 5, dedupe_key |-> <<" ", "a">>]
P4 == [title |-> <<"t">>, severity_1to5 |-> 2, dedupe_key |-> <<"b">>]
P5 == [subreddit |-> <<"s">>, severity_1to5 |-> 4, dedupe_key |-> <<"B">>]
P6 == [subreddit |-> <<"s">>, title |-> <<"t">>, severity_1to5 |-> 5, dedupe_key |-> <<" ">>]
P7 == [subreddit |-> <<"s">>, title |-> <<"t">>, severity_1to5 |-> 5, dedupe_key |-> <<>>]
P8 == [subreddit |-> <<"s">>, title |-> <<"t">>, severity_1to5 |-> 5]

AggPool == {P1, P2, P3, P4, P5, P6, P7, P8}

\* Results that all fall under the key "a".
SameKeyPool == {P1, P2, P3}

SeqsUpTo(S, n) == UNION {[1..m -> S] : m \in 0..n}

\* The extraction loop has finished: one post per batch, each answered at the
\* first attempt with one result.
InitAgg ==
    /\ analyses \in SeqsUpTo(AggPool, MaxResults) \cup SeqsUpTo(SameKeyPool, MaxSameKey)
    /\ all_rows = Rows(Len(analyses))
    /\ args \in {a \in ArgsSet : a.batch_size = 1 /\ a.model # None /\ a.table = "both"}
    /\ pc = "write_raw"
    /\ i = Len(all_rows)
    /\ batch = IF all_rows = <<>> THEN <<>> ELSE <<all_rows[Len(all_rows)]>>
    /\ calls = IF all_rows = <<>> THEN <<>> ELSE <<"ok">>
    /\ slices = [j \in 1..Len(all_rows) |-> <<all_rows[j]>>]
    /\ exhausted = {}
    /\ stderr = <<>>
    /\ ri = 0
    /\ buckets = <<>>
    /\ files = NoFiles
    /\ exc = NoExc
    /\ NamesResolved

SpecAgg == InitAgg /\ [][AfterExtraction]_vars

\* The characters of a subreddits file.
SubChars == {"r", "/", "a", "A", ",", " ", "#", "\n"}

\* Names given with --subreddits.
ArgNames == {<<"a">>, <<"r", "a">>, <<"r", "/", "a">>, <<" ", "A">>}

\* main is entered: the names come from --subreddits or from a file, and the
\* analysis has not begun.
InitSubs ==
    /\ \/ /\ sub_args \in SeqsUpTo(ArgNames, MaxArgs) \ {<<>>}
          /\ sub_file = <<>>
       \/ /\ sub_args = <<>>
          /\ sub_file \in SeqsUpTo(SubChars, MaxText)
    /\ sub_pc = "resolve"
    /\ sub_raw = <<>>
    /\ subreddits = <<>>
    /\ names = <<>>
    /\ all_rows = <<>>
    /\ args = [batch_size |-> 20, model |-> None, table |-> "csv", md_top |-> 50]
    /\ pc = "main"
    /\ i = 0
    /\ batch = <<>>
    /\ calls = <<>>
    /\ analyses = <<>>
    /\ slices = <<>>
    /\ exhausted = {}
    /\ stderr = <<>>
    /\ ri = 0
    /\ buckets = <<>>
    /\ files = NoFiles
    /\ exc = NoExc

NextSubs ==
    \/ Resolve
    \/ NextName

SpecSubs == InitSubs /\ [][NextSubs]_vars

\* ================================================================ claims
\* The batch loop has run to its end.
LoopDone == pc \notin {"for", "call", "except"} /\ exc.at # "batch_except"

\* The aggregation loop has consumed analyses[1..Consumed].
Consumed == IF pc = "write_raw" THEN 0 ELSE IF pc = "aggregate" THEN ri ELSE Len(analyses)

\* The indices of the consumed results that went into the bucket of key k.
Contributing(k) == {j \in 1..Consumed : KeyOf(analyses[j]) = k}

\* The members of a set of indices, in increasing order.
RECURSIVE Ascending(_)
Ascending(S) ==
    IF S = {} THEN <<>>
    ELSE LET m == CHOOSE x \in S : \A y \in S : x <= y
         IN  <<m>> \o Ascending(S \ {m})

\* C1: when the extraction call of a batch has failed on all 6 attempts, the
\* error is reported with the batch range, no result of that batch is in the
\* results collection, and the run goes on instead of aborting.
C1_ExhaustedBatchIsSkipped ==
    \A b \in exhausted :
        pc # "except" =>
            /\ pc # "aborted"
            /\ \E j \in 1..Len(stderr) : stderr[j].what = "error" /\ stderr[j].lo = b
            /\ \A j \in 1..Len(analyses) :
                  Get(analyses[j], "post_id", 0) \notin
                      {all_rows[n].id : n \in (b + 1)..Min(b + BatchSize(args), Len(all_rows))}

\* C2: with B the batch size clamped to at least 1 and L the number of posts,
\* the slices made so far are non-empty, of size at most B, and concatenate to
\* a prefix of the input; when the loop has run to its end there are exactly
\* ceil(L/B) of them and they concatenate to the whole input; for L = 0 there
\* is no slice and no extraction call.
C2_SlicesPartitionInput ==
    LET B == IF args.batch_size < 1 THEN 1 ELSE args.batch_size
        L == Len(all_rows)
        cat == Concat(slices)
    IN  /\ \A k \in 1..Len(slices) : slices[k] # <<>> /\ Len(slices[k]) <= B
        /\ Len(cat) <= L
        /\ cat = SubSeq(all_rows, 1, Len(cat))
        /\ LoopDone => Len(slices) = (L + B - 1) \div B /\ cat = all_rows
        /\ L = 0 => slices = <<>> /\ calls = <<>> /\ pc \notin {"call", "except"}

\* C2 witness: three posts in batches of two were sliced into [1,2] and [3].
C2_Witness ==
    /\ LoopDone
    /\ args.batch_size = 2
    /\ slices = << <<Post(1), Post(2)>>, <<Post(3)>> >>

\* C3: a failure of the summarization step does not abort the run.
C3_SummaryFailureDoesNotAbort == ~(pc = "aborted" /\ exc.at = "summary_except")

C4_LowerOf(c) == IF c = "A" THEN "a" ELSE IF c = "B" THEN "b" ELSE c

C4_Raw(r) == IF "dedupe_key" \in DOMAIN r /\ r.dedupe_key # None THEN r.dedupe_key ELSE <<>>

\* k is d lowercased with its leading and trailing blanks cut off
C4_IsNormalOf(k, d) ==
    \E a \in 0..Len(d) : \E z \in a..Len(d) :
        /\ \A j \in 1..a : d[j] \in {" ", "\n"}
        /\ \A j \in (z + 1)..Len(d) : d[j] \in {" ", "\n"}
        /\ k = [j \in 1..(z - a) |-> C4_LowerOf(d[a + j])]
        /\ k # <<>> => k[1] \notin {" ", "\n"} /\ k[Len(k)] \notin {" ", "\n"}

C4_Blank(r) == \A j \in 1..Len(C4_Raw(r)) : C4_Raw(r)[j] \in {" ", "\n"}

RECURSIVE C4_SumCounts(_)
C4_SumCounts(bks) == IF bks = <<>> THEN 0 ELSE Head(bks).count + C4_SumCounts(Tail(bks))

\* C4: over the results consumed so far, each bucket's count is the number of
\* results whose dedupe_key, lowercased and trimmed, is the bucket's key; keys
\* are distinct and never empty; a result with a missing, empty or blank
\* dedupe_key is in no bucket, every other result is in one; the counts add up
\* to the number of results with a non-blank dedupe_key.
C4_BucketCounts ==
    LET done == 1..Consumed IN
    /\ \A m, n \in 1..Len(buckets) : buckets[m].key = buckets[n].key => m = n
    /\ \A m \in 1..Len(buckets) :
          /\ buckets[m].key # <<>>
          /\ buckets[m].count =
                Cardinality({j \in done : C4_IsNormalOf(buckets[m].key, C4_Raw(analyses[j]))})
    /\ \A j \in done :
          IF C4_Blank(analyses[j])
          THEN \A m \in 1..Len(buckets) : ~C4_IsNormalOf(buckets[m].key, C4_Raw(analyses[j]))
          ELSE \E m \in 1..Len(buckets) : C4_IsNormalOf(buckets[m].key, C4_Raw(analyses[j]))
    /\ C4_SumCounts(buckets) = Cardinality({j \in done : ~C4_Blank(analyses[j])})

\* C4 witness: "A " and " a" met in one bucket of count 2, a result without
\* dedupe_key stayed out.
C4_Witness ==
    /\ pc = "write_agg"
    /\ analyses = <<P1, P8, P3>>
    /\ Len(buckets) = 1
    /\ buckets[1].key = <<"a">>
    /\ buckets[1].count = 2

\* C5: whatever fields a result lacks, the raw dump, the aggregation and the
\* writing of the aggregated and per-post files raise nothing.
C5_MissingFieldsNeverRaise ==
    ~(pc = "aborted" /\ exc.at \in {"write_raw", "aggregate", "write_agg", "per_post_csv", "per_post_md"})

\* C6: with zero results, the per-post CSV holds the fallback header and no
\* data row, and the per-post Markdown the header row, the separator row and
\* no data row.
C6_ZeroResultsHeaderOnly ==
    analyses = <<>> =>
        /\ "per_post_csv" \in DOMAIN files =>
              /\ files["per_post_csv"].fieldnames = FallbackColumns
              /\ files["per_post_csv"].rows = <<>>
        /\ "per_post_md" \in DOMAIN files =>
              /\ files["per_post_md"].header = FallbackColumns
              /\ files["per_post_md"].rows = <<>>

\* The (subreddit, title) pairs of the results that went into the bucket of
\* key k, in encounter order.
C7_Pairs(k) ==
    LET idx == Ascending(Contributing(k))
    IN  [n \in 1..Len(idx) |->
            [subreddit |-> Get(analyses[idx[n]], "subreddit", None),
             title |-> Get(analyses[idx[n]], "title", None)]]

\* A sequence without the repetitions of its earlier members.
C7_FirstOccurrences(s) ==
    LET keep == {n \in 1..Len(s) : \A m \in 1..(n - 1) : s[m] # s[n]}
        idx == Ascending(keep)
    IN  [n \in 1..Len(idx) |-> s[idx[n]]]

C7_Take5(s) == SubSeq(s, 1, IF Len(s) < 5 THEN Len(s) ELSE 5)

\* C7 as stated: a bucket's examples are the first (up to 5) distinct
\* (subreddit, title) pairs of its results, in encounter order.
C7_ExamplesAreFirstDistinctPairs ==
    \A m \in 1..Len(buckets) :
        buckets[m].examples = C7_Take5(C7_FirstOccurrences(C7_Pairs(buckets[m].key)))

\* C7 amended: at every point of the aggregation a bucket's examples are the
\* pairs of its first (up to 5) results, in encounter order, repetitions kept;
\* so the list never exceeds 5 and, once 5 are held, stays as it is.
C7_ExamplesAreFirstFivePairs ==
    \A m \in 1..Len(buckets) :
        /\ Len(buckets[m].examples) <= 5
        /\ buckets[m].examples = C7_Take5(C7_Pairs(buckets[m].key))

\* C7 witness: six results in one bucket, five examples held with a pair
\* repeated among them, and the sixth result's pair is not the fifth example.
C7_Witness ==
    /\ Len(buckets) = 1
    /\ buckets[1].count = 6
    /\ Len(buckets[1].examples) = 5
    /\ buckets[1].examples[1] = buckets[1].examples[2]
    /\ C7_Pairs(buckets[1].key)[6] # buckets[1].examples[5]

\* C8: a bucket's audiences are the union of its results' stakeholders, its
\* links the union of their useful_links, its tags the union of their tags.
C8_AudiencesAreStakeholders ==
    \A m \in 1..Len(buckets) :
        LET rs == {analyses[j] : j \in Contributing(buckets[m].key)} IN
        /\ buckets[m].audiences = UNION {SeqToSet(Get(r, "stakeholders", <<>>)) : r \in rs}
        /\ buckets[m].links = UNION {SeqToSet(Get(r, "useful_links", <<>>)) : r \in rs}
        /\ buckets[m].tags = UNION {SeqToSet(Get(r, "primary_topic_tags", <<>>)) : r \in rs}

C9_Severity(r) == IF "severity_1to5" \in DOMAIN r THEN r.severity_1to5 ELSE 3

RECURSIVE C9_Sum(_)
C9_Sum(S) ==
    IF S = {} THEN 0
    ELSE LET j == CHOOSE x \in S : TRUE
         IN  C9_Severity(analyses[j]) + C9_Sum(S \ {j})

C9_Abs(x) == IF x < 0 THEN -x ELSE x

\* C9: in every row of the aggregated CSV the average severity, in
\* hundredths, is the hundredth nearest to (sum of the bucket's severities,
\* a missing one counted as 3) / (number of its results), and lies in
\* [1.00, 5.00]; severities 1, 3, 5 give 3.00.
C9_AverageSeverity ==
    "agg" \in DOMAIN files =>
        \A n \in 1..Len(files["agg"].rows) :
            LET row == files["agg"].rows[n]
                mem == {j \in 1..Len(analyses) : KeyOf(analyses[j]) = row.issue_key}
                S == C9_Sum(mem)
            IN  /\ row.posts = Cardinality(mem)
                /\ 2 * C9_Abs(100 * S - row.avg_severity * row.posts) <= row.posts
                /\ row.avg_severity >= 100 /\ row.avg_severity <= 500
                /\ {C9_Severity(analyses[j]) : j \in mem} = {1, 3, 5} /\ row.posts = 3
                      => row.avg_severity = 300

\* C9 witness: severities 1, missing and 5 under one key were written as 3.00.
C9_Witness ==
    /\ "agg" \in DOMAIN files
    /\ analyses = <<P1, P2, P3>>
    /\ Len(files["agg"].rows) = 1
    /\ files["agg"].rows[1].avg_severity = 300

\* C10: a batch gets at least one and at most 6 attempts; every attempt but
\* the last one raised; another attempt is due only after a raised one and
\* with fewer than 6 made; the handler is reached only after 6 raised ones.
C10_AttemptsBounded ==
    /\ Len(calls) <= 6
    /\ \A j \in 1..(Len(calls) - 1) : calls[j] = "raise"
    /\ pc = "call" => Len(calls) < 6 /\ (calls # <<>> => calls[Len(calls)] = "raise")
    /\ (pc # "call" /\ slices # <<>>) => Len(calls) >= 1
    /\ pc = "except" => Len(calls) = 6 /\ calls[6] = "raise"

\* C10 witness: five attempts raised and the sixth returned.
C10_Witness ==
    /\ pc = "for"
    /\ Len(calls) = 6
    /\ calls[6] = "ok"

\* The index of the first result that falls under key k.
C11_FirstSeen(k) ==
    CHOOSE j \in 1..Len(analyses) :
        /\ KeyOf(analyses[j]) = k
        /\ \A n \in 1..(j - 1) : KeyOf(analyses[n]) # k

\* C11: the rows of the aggregated CSV are in descending order of posts, and
\* rows of equal posts are in the order in which their keys were first seen
\* in the results.
C11_RowsByCountThenFirstSeen ==
    "agg" \in DOMAIN files =>
        LET rows == files["agg"].rows IN
        \A m, n \in 1..Len(rows) :
            m < n =>
                /\ rows[m].posts >= rows[n].posts
                /\ rows[m].posts = rows[n].posts =>
                      C11_FirstSeen(rows[m].issue_key) < C11_FirstSeen(rows[n].issue_key)

\* C11 witness: "b" was seen before "a", each has one post, and the rows are
\* "b" then "a".
C11_Witness ==
    /\ "agg" \in DOMAIN files
    /\ analyses = <<P4, P1>>
    /\ Len(files["agg"].rows) = 2
    /\ files["agg"].rows[1].issue_key = <<"b">>
    /\ files["agg"].rows[2].issue_key = <<"a">>

\* A later bucket with more posts was written first.
C11_WitnessReordered ==
    /\ "agg" \in DOMAIN files
    /\ analyses = <<P4, P1, P3>>
    /\ files["agg"].rows[1].issue_key = <<"a">>
    /\ files["agg"].rows[2].issue_key = <<"b">>

C12_HasPrefix(n) == Len(n) >= 2 /\ n[1] = "r" /\ n[2] = "/"

\* A name with one leading "r/" removed, every other character kept.
C12_StripPrefix(n) == IF C12_HasPrefix(n) THEN SubSeq(n, 3, Len(n)) ELSE n

C12_LowerOf(n) == [j \in 1..Len(n) |-> IF n[j] = "A" THEN "a" ELSE n[j]]

\* The members of s that no earlier member equals case-insensitively.
C12_FirstOfEachName(s) ==
    LET keep == {n \in 1..Len(s) : \A m \in 1..(n - 1) : C12_LowerOf(s[m]) # C12_LowerOf(s[n])}
        idx == Ascending(keep)
    IN  [n \in 1..Len(idx) |-> s[idx[n]]]

\* C12: read_subreddits_from_file returns the names found in the file with
\* only a leading "r/" removed, duplicates removed case-insensitively keeping
\* the first, in order (so a name without the prefix comes back unchanged);
\* and main's stripping leaves a name without "r/" prefix unchanged.
C12_OnlyPrefixRemoved ==
    /\ (sub_pc \in {"names", "done"} /\ sub_args = <<>>) =>
          subreddits = C12_FirstOfEachName([j \in 1..Len(sub_raw) |-> C12_StripPrefix(sub_raw[j])])
    /\ \A j \in 1..Len(names) :
          (~C12_HasPrefix(subreddits[j]) /\ subreddits[j] = Strip(subreddits[j]))
              => names[j] = subreddits[j]

C13_IsPrefix(s, t) == Len(s) <= Len(t) /\ s = SubSeq(t, 1, Len(s))

\* The attempts of the current batch are over: one returned, or 6 raised.
C13_BatchFinished == calls # <<>> /\ (calls[Len(calls)] = "ok" \/ Len(calls) = 6)

\* The results are in the order of the posts' batches.
C13_InBatchOrder ==
    \A m, n \in 1..Len(analyses) :
        m < n => analyses[m].post_id <= analyses[n].post_id

\* C13: in every step of the run, the results collection only grows at its
\* end and stays in batch order; an attempt is made for the slice made last;
\* the next slice is made only when the attempts of the one before are over;
\* and a file is written only when every slice has been made and the
\* attempts of the last one are over.
C13_SequentialThenWrites ==
    [][ /\ C13_IsPrefix(analyses, analyses')
        /\ C13_InBatchOrder'
        /\ calls' # calls /\ calls' # <<>> =>
              /\ pc = "call"
              /\ calls' = Append(calls, calls'[Len(calls')])
              /\ batch = slices[Len(slices)]
              /\ slices' = slices
        /\ slices' # slices =>
              /\ slices' = Append(slices, batch')
              /\ calls' = <<>>
              /\ slices # <<>> => C13_BatchFinished
        /\ files' # files =>
              /\ pc \notin {"for", "call", "except"}
              /\ Concat(slices) = all_rows
              /\ slices # <<>> => C13_BatchFinished
      ]_vars

\* C13 witness: three batches were extracted one after the other, the last
\* one at its second attempt, and the raw file was written after that.
C13_Witness ==
    /\ "raw" \in DOMAIN files
    /\ Len(slices) = 3
    /\ calls = <<"raise", "ok">>
    /\ Len(analyses) = 3
    /\ \A n \in 1..3 : analyses[n].post_id = n

====
